---- MODULE Spec2Model ----
(***************************************************************************)
(* ytm: the mpv IPC bridge (player.py) and the LAN jukebox protocol        *)
(* (net.py), as driven by the Textual application (app.py).                *)
(*                                                                         *)
(* The specifications share the module, one per component:                *)
(*   SpecBridge      MpvPlayer: play/stop and the locked command exchange  *)
(*   SpecBridgeLive  the same, with an engine that never stops emitting    *)
(*                   notifications, and fairness of the reading thread     *)
(*   SpecSession     MpvPlayer: play() and stop() step by step, the engine *)
(*                   processes and control sockets                         *)
(*   SpecOverlap     MpvPlayer: play() calls of several threads at once    *)
(*   SpecAccessor    MpvPlayer: position, duration, paused, volume as      *)
(*                   functions of what _command returned                   *)
(*   SpecServer      JukeboxServer: accept, handler tasks, broadcast, stop *)
(*   SpecClient      JukeboxClient and the application in client mode:     *)
(*                   connect, listen, send_add, close, key bindings        *)
(*   SpecHost        the application on the host: remote adds, the tick,  *)
(*                   the play workers                                      *)
(*   SpecCodec       encode_msg and read_msg on the JSON text of a message *)
(* Each leaves the other components' variables at their initial values.    *)
(*                                                                         *)
(* Sockets are modelled at line granularity: a channel is a sequence of    *)
(* complete newline-terminated lines, and one recv() takes a non-empty     *)
(* prefix of it.                                                           *)
(***************************************************************************)
EXTENDS Integers, Sequences, FiniteSets, TLC

\* ------------------------------------------------------------------------
\* Bounds
\* ------------------------------------------------------------------------
NumCallers == 2      \* threads that call into one MpvPlayer
MaxRequests == 2     \* commands issued over a run
MaxEvents == 1       \* event notifications written to the socket during one call
MaxConns == 2        \* connections a server accepts over a run
MaxFrames == 3       \* frames a listen() call receives over a run
MaxQueue == 3        \* entries the queue holds
NumWorkers == 2      \* threads that call play() or stop()
MaxSpawns == 2       \* engine processes spawned over a run
MaxSeconds == 3      \* largest position or duration the engine reports
MaxAdds == 2         \* entries added to the host's queue over a run

Callers == 1..NumCallers

\* ---- MpvPlayer ----
VARIABLES
  proc,        \* self._proc: "none" | "running" | "exited"
  sock,        \* self._sock: "none" | "open"
  sockFile,    \* os.path.exists(self._socket_path)
  lock,        \* self._lock: 0 when free, else the caller holding it
  cpc,         \* per caller: "idle" | "recv" (inside _command's read loop)
  req,         \* per caller: the request of its call in progress
  rcvd,        \* per caller: lines received so far by its call in progress
  last,        \* the call that ended last: caller, request, lines, outcome
  toEngine,    \* requests written to the control socket, not yet answered
  fromEngine,  \* lines the engine wrote, not yet received
  nextRid      \* number of the next request (ghost)

bridgeVars == <<proc, sock, sockFile, lock, cpc, req, rcvd, last,
                toEngine, fromEngine, nextRid>>

\* ---- JukeboxServer ----
VARIABLES
  srv,        \* self._server: "new" (None) | "listening" | "closed"
  stopPc,     \* stop(): "idle" | "waiting" (in wait_closed) | "returned"
  on_add,     \* self.on_add is set
  clients,    \* self._clients: the registered connections, in dict order
  hs,         \* per connection, its handler task: "free" | "pending"
              \*   | "reading" | "done"
  cancelReq,  \* per connection: task.cancel() requested, not yet delivered
  wclosed,    \* per connection: writer.close() was called
  wbroken,    \* per connection: the transport is lost, write() raises
  lastSrv     \* what the last server step did (ghost)

serverVars == <<srv, stopPc, on_add, clients, hs, cancelReq, wclosed,
                wbroken, lastSrv>>

\* ---- JukeboxClient ----
VARIABLES
  connected,   \* self._connected
  cl_reader,   \* self._reader is set
  cl_writer,   \* self._writer: "none" | "open" | "closed"
  on_sync,     \* self.on_sync is set
  connPc,      \* connect(): "init" | "opening" | "drain" | "returned"
  connRet,     \* connect()'s result: "none" | "true" | "false"
  openOutcome, \* how open_connection ended (ghost)
  lstPc,       \* listen(): "idle" | "reading" | "returned" | "raised"
  received,    \* the messages read_msg returned to listen(), in order (ghost)
  delivered    \* the messages on_sync was invoked with, in order

clientVars == <<connected, cl_reader, cl_writer, on_sync, connPc, connRet,
                openOutcome, lstPc, received, delivered>>

\* ---- JukeboxClient.send_add and close ----
VARIABLES
  addPc,       \* send_add(): "idle" | "drain" (awaiting writer.drain())
  lastAdd,     \* the send_add call that started last (ghost)
  closedOnce   \* close() has returned at least once (ghost)

senderVars == <<addPc, lastAdd, closedOnce>>

\* ---- YtmApp ----
VARIABLES
  lastUi,      \* the key binding or timer that ran last (ghost)
  mode,        \* self._mode: "none" (not constructed) | "local" | "host"
               \*   | "client"
  a_queue,     \* self._queue
  a_track,     \* self._track (NoEntry: None)
  playArg      \* the entry _play_entry was last started with (NoEntry: none)

appVars == <<mode, a_queue, a_track, playArg, lastUi>>

\* ---- MpvPlayer sessions: play() and stop() step by step ----
VARIABLES
  nspawned,    \* engine processes spawned so far (they are numbered 1..)
  alive,       \* the spawned processes that have not exited
  selfExited,  \* the processes that exited without being stopped (ghost)
  sockBound,   \* the processes that have created their control socket
  nsock,       \* sockets connected so far (they are numbered 1..)
  openSocks,   \* the connected sockets not closed
  p_proc,      \* self._proc: 0 (None) or the process
  p_sock,      \* self._sock: 0 (None) or the socket
  p_file,      \* the socket file: 0 (absent) or the process that made it
  wpc,         \* per worker: the call in progress and its position
  polls,       \* per worker: failed existence checks of its play()
  lastOp       \* the play()/stop() that returned last (ghost)

sessionVars == <<nspawned, alive, selfExited, sockBound, nsock, openSocks, p_proc, p_sock,
                 p_file, wpc, polls, lastOp>>

\* ---- YtmApp on the host: the play workers and the queue's history ----
VARIABLES
  a_loading,   \* self._loading
  pw,          \* per worker of the "play" group: where its _play_entry
               \*   stands, the entry it has yet to store in _track, whether
               \*   it was cancelled
  added,       \* the entries appended to the queue, in order (ghost)
  started      \* the entries taken from the head of the queue and handed
               \*   to _play_entry, in order (ghost)

hostVars == <<a_loading, pw, added, started>>

\* ---- MpvPlayer property accessors ----
VARIABLES
  accCall      \* the accessor read that ran last: the property, what
               \*   _command returned, what the accessor returned

\* ---- encode_msg / read_msg on one message ----
VARIABLES
  codec        \* the message, the line encode_msg made of it, what
               \*   read_msg returned for that line, and the stage reached

programVars == <<bridgeVars, serverVars, clientVars, senderVars, appVars,
                 sessionVars, hostVars>>

notBridge == <<serverVars, clientVars, senderVars, appVars, sessionVars,
               hostVars, accCall, codec>>
notServer == <<bridgeVars, clientVars, senderVars, appVars, sessionVars,
               hostVars, accCall, codec>>
notApp == <<bridgeVars, serverVars, sessionVars, accCall, codec>>
notClient == <<notApp, hostVars>>
notSession == <<bridgeVars, serverVars, clientVars, senderVars, appVars,
                hostVars, accCall, codec>>

vars == <<programVars, accCall, codec>>

\* ------------------------------------------------------------------------
\* MpvPlayer (player.py)
\* ------------------------------------------------------------------------
Props == {"playback-time", "duration"}

\* What the engine holds for a property (position 30 of a 200 s track).
EngineValue(p) == IF p = "playback-time" THEN 30 ELSE 200

NoReq == [prop |-> "", rid |-> 0]
NoLine == [kind |-> "none", rid |-> 0, error |-> "", data |-> 0]
EventLine == [kind |-> "event", rid |-> 0, error |-> "", data |-> 0]
\* The engine's answer to request r; rid is a ghost tag, mpv's answers are
\* matched by position only.
RespLine(r, err) ==
  [kind |-> "resp", rid |-> r.rid, error |-> err,
   data |-> IF err = "success" THEN EngineValue(r.prop) ELSE 0]

\* Outcomes of one _command call.
RetIdle == [kind |-> "idle", line |-> NoLine]   \* no call has ended yet
RetNone == [kind |-> "none", line |-> NoLine]   \* return None
RetExc  == [kind |-> "exc",  line |-> NoLine]   \* an exception left _command
RetLine(l) == [kind |-> "line", line |-> l]     \* return data

\* `"event" not in data`
IsEvent(l) == l.kind = "event"

\* Index of the line the inner loop returns: the first line of buf without
\* an `event` key, 0 when every line is an event.
RECURSIVE FirstNonEventFrom(_, _)
FirstNonEventFrom(buf, i) ==
  IF i > Len(buf) THEN 0
  ELSE IF ~IsEvent(buf[i]) THEN i
  ELSE FirstNonEventFrom(buf, i + 1)

\* A plausible slip: the `event` test is dropped, the first line is returned.
FirstLineAny(buf) == IF Len(buf) > 0 THEN 1 ELSE 0

FirstNonEvent(buf) == FirstNonEventFrom(buf, 1)

\* A plausible slip: the exchange is not guarded by the lock.
LockFreeUnguarded == TRUE

\* `with self._lock:` can be entered
LockFree == lock = 0

\* is_running
IsRunning == proc = "running"

\* get_property's return value from _command's result: the data of a
\* success answer, otherwise None (modelled as "none").
GetProperty(r) ==
  IF r.kind = "line" /\ r.line.error = "success"
  THEN [kind |-> "val", data |-> r.line.data, rid |-> r.line.rid]
  ELSE [kind |-> r.kind, data |-> 0, rid |-> 0]

\* The record of a call that ended.
Ended(t, r, lines, outcome) ==
  [caller |-> t, req |-> r, rcvd |-> lines, ret |-> outcome]

InitBridge ==
  /\ proc = "none"
  /\ sock = "none"
  /\ sockFile = FALSE
  /\ lock = 0
  /\ cpc = [t \in Callers |-> "idle"]
  /\ req = [t \in Callers |-> NoReq]
  /\ rcvd = [t \in Callers |-> <<>>]
  /\ last = Ended(0, NoReq, <<>>, RetIdle)
  /\ toEngine = <<>>
  /\ fromEngine = <<>>
  /\ nextRid = 1

\* stop(): terminate/kill the process, close the socket, unlink the file.
\* It takes no lock; callers inside _command keep running.
PlayerStop ==
  /\ UNCHANGED notBridge
  /\ proc' = "none"
  /\ sock' = "none"
  /\ sockFile' = FALSE
  /\ toEngine' = <<>>
  /\ fromEngine' = <<>>
  /\ UNCHANGED <<lock, cpc, req, rcvd, last, nextRid>>

\* play(): stop(), spawn mpv, poll for the socket file, _connect().
\*   spawned = FALSE   Popen raised FileNotFoundError
\*   appeared = FALSE  the socket file did not appear within the 30 polls
\*   attached = FALSE  _connect() raised OSError
PlayerPlay ==
  /\ UNCHANGED notBridge
  /\ \E spawned, appeared, attached \in BOOLEAN :
       /\ proc' = IF spawned THEN "running" ELSE "none"
       /\ sockFile' = (spawned /\ appeared)
       /\ sock' = IF spawned /\ appeared /\ attached THEN "open" ELSE "none"
  /\ toEngine' = <<>>
  /\ fromEngine' = <<>>
  /\ UNCHANGED <<lock, cpc, req, rcvd, last, nextRid>>

\* _command, from the lock to the first recv: `if not self._sock: return
\* None`, else sendall (which may raise OSError: sock := None, return None).
CommandEnter(t) ==
  /\ UNCHANGED notBridge
  /\ cpc[t] = "idle"
  /\ LockFree
  /\ nextRid <= MaxRequests
  /\ nextRid' = nextRid + 1
  /\ \E p \in Props :
       LET r == [prop |-> p, rid |-> nextRid] IN
       IF sock = "none"
       THEN /\ last' = Ended(t, r, <<>>, RetNone)
            /\ UNCHANGED <<lock, cpc, req, sock, toEngine>>
       ELSE \/ /\ toEngine' = Append(toEngine, r)
               /\ lock' = t
               /\ cpc' = [cpc EXCEPT ![t] = "recv"]
               /\ req' = [req EXCEPT ![t] = r]
               /\ UNCHANGED <<sock, last>>
            \/ /\ proc # "running"          \* BrokenPipeError
               /\ sock' = "none"
               /\ last' = Ended(t, r, <<>>, RetNone)
               /\ UNCHANGED <<lock, cpc, req, toEngine>>
  /\ UNCHANGED <<proc, sockFile, fromEngine, rcvd>>

\* The caller leaves _command with outcome r, having received `lines`, and
\* releases the lock it holds.
Leave(t, lines, r) ==
  /\ last' = Ended(t, req[t], lines, r)
  /\ cpc' = [cpc EXCEPT ![t] = "idle"]
  /\ req' = [req EXCEPT ![t] = NoReq]
  /\ rcvd' = [rcvd EXCEPT ![t] = <<>>]
  /\ lock' = IF lock = t THEN 0 ELSE lock

\* The lines a call in progress has skipped, as the ghost keeps them: the
\* last MaxEvents of them.
Skipped(lines) ==
  IF Len(lines) <= MaxEvents THEN lines
  ELSE SubSeq(lines, Len(lines) - MaxEvents + 1, Len(lines))

\* One iteration of `while True: chunk = self._sock.recv(4096) ...`.
CommandRecv(t) ==
  /\ UNCHANGED notBridge
  /\ cpc[t] = "recv"
  /\ UNCHANGED <<proc, sockFile, toEngine, nextRid>>
  /\ \/ \* data arrives: k lines in one chunk
        /\ sock = "open"
        /\ \E k \in 1..Len(fromEngine) :
             LET buf == SubSeq(fromEngine, 1, k)
                 i == FirstNonEvent(buf)
             IN /\ fromEngine' = SubSeq(fromEngine, k + 1, Len(fromEngine))
                /\ IF i = 0
                   THEN /\ rcvd' = [rcvd EXCEPT ![t] = Skipped(rcvd[t] \o buf)]
                        /\ UNCHANGED <<last, cpc, req, lock>>
                   ELSE Leave(t, rcvd[t] \o buf, RetLine(buf[i]))
        /\ UNCHANGED sock
     \/ \* socket.timeout after 0.2 s without data: return None
        /\ fromEngine = <<>>
        /\ Leave(t, rcvd[t], RetNone)
        /\ UNCHANGED <<sock, fromEngine>>
     \/ \* the engine closed its end: recv returns b"" (return None) or
        \* raises ConnectionResetError (sock := None, return None)
        /\ sock = "open" /\ proc # "running" /\ fromEngine = <<>>
        /\ Leave(t, rcvd[t], RetNone)
        /\ sock' \in {"open", "none"}
        /\ UNCHANGED fromEngine
     \/ \* OSError on a socket closed under the read: sock := None
        /\ sock = "none"
        /\ Leave(t, rcvd[t], RetNone)
        /\ UNCHANGED <<sock, fromEngine>>
     \/ \* self._sock is None when the loop evaluates self._sock.recv:
        \* AttributeError, which no except clause of _command catches
        /\ sock = "none"
        /\ Leave(t, rcvd[t], RetExc)
        /\ UNCHANGED <<sock, fromEngine>>

\* mpv answers the oldest unanswered request.
EngineAnswer ==
  /\ UNCHANGED notBridge
  /\ proc = "running" /\ sock = "open"
  /\ toEngine # <<>>
  /\ \E err \in {"success", "property unavailable"} :
       fromEngine' = Append(fromEngine, RespLine(Head(toEngine), err))
  /\ toEngine' = Tail(toEngine)
  /\ UNCHANGED <<proc, sock, sockFile, lock, cpc, req, rcvd, last, nextRid>>

\* The notifications a call in progress has read or still has to read.
RECURSIVE EventsRead(_)
EventsRead(ts) ==
  IF ts = {} THEN 0
  ELSE LET t == CHOOSE x \in ts : TRUE
       IN Len(rcvd[t]) + EventsRead(ts \ {t})
EventsInFlight == Len(SelectSeq(fromEngine, IsEvent)) + EventsRead(Callers)

\* mpv emits an unsolicited notification.
EngineEvent ==
  /\ UNCHANGED notBridge
  /\ proc = "running" /\ sock = "open"
  /\ EventsInFlight < MaxEvents
  /\ fromEngine' = Append(fromEngine, EventLine)
  /\ UNCHANGED <<proc, sock, sockFile, lock, cpc, req, rcvd, last,
                 toEngine, nextRid>>

\* mpv emits notifications for as long as it runs (a long stream of
\* property changes, log messages, playback events); the socket holds at
\* most MaxEvents of them unread.
EngineEventStream ==
  /\ UNCHANGED notBridge
  /\ proc = "running" /\ sock = "open"
  /\ Len(SelectSeq(fromEngine, IsEvent)) < MaxEvents
  /\ fromEngine' = Append(fromEngine, EventLine)
  /\ UNCHANGED <<proc, sock, sockFile, lock, cpc, req, rcvd, last,
                 toEngine, nextRid>>

\* The engine process exits by itself (end of track).
EngineExit ==
  /\ UNCHANGED notBridge
  /\ proc = "running"
  /\ proc' = "exited"
  /\ UNCHANGED <<sock, sockFile, lock, cpc, req, rcvd, last,
                 toEngine, fromEngine, nextRid>>

NextBridge ==
  \/ PlayerPlay
  \/ PlayerStop
  \/ \E t \in Callers : CommandEnter(t)
  \/ \E t \in Callers : CommandRecv(t)
  \/ EngineAnswer
  \/ EngineEvent
  \/ EngineExit

\* The bridge with an engine that never stops emitting notifications.
NextBridgeLive ==
  \/ PlayerPlay
  \/ PlayerStop
  \/ \E t \in Callers : CommandEnter(t)
  \/ \E t \in Callers : CommandRecv(t)
  \/ EngineAnswer
  \/ EngineEventStream
  \/ EngineExit

\* The default `or` puts in place of a falsy result: position and duration
\* 0.0, paused False (0), volume 100.0.
PropDefault(p) == IF p = "volume" THEN 100 ELSE 0

\* position, duration, paused, volume: `self.get_property(name) or default`.
\* An exception that left _command leaves the accessor too.
Accessor(p, r) ==
  LET g == GetProperty(r) IN
  IF g.kind = "exc" THEN [kind |-> "exc", data |-> 0]
  ELSE IF g.kind = "val" /\ g.data # 0 THEN [kind |-> "val", data |-> g.data]
  ELSE [kind |-> "val", data |-> PropDefault(p)]

\* The four properties the accessors read.
AccessorProps == {"playback-time", "duration", "pause", "volume"}

\* set_volume clamps to 0.0 .. 150.0
MaxVolume == 150

\* The values a property takes in the engine. A boolean is the integer it
\* equals in Python (False == 0, True == 1).
PropRange(p) ==
  IF p = "pause" THEN 0..1
  ELSE IF p = "volume" THEN 0..MaxVolume
  ELSE 0..MaxSeconds

\* What _command can hand to get_property for a read of p: None, an
\* exception, a success answer carrying a value, an error answer.
CommandOutcomes(p) ==
  {RetNone, RetExc}
    \cup {RetLine([kind |-> "resp", rid |-> 1, error |-> "success",
                   data |-> v]) : v \in PropRange(p)}
    \cup {RetLine([kind |-> "resp", rid |-> 1,
                   error |-> "property unavailable", data |-> 0])}

InitAccessor ==
  accCall = [prop |-> "", ret |-> RetIdle,
             result |-> [kind |-> "idle", data |-> 0]]

\* A read of property p for which _command returned r, about to be turned
\* into the accessor's value.
AccessorInputs ==
  UNION {{[prop |-> p, ret |-> r, result |-> [kind |-> "pending", data |-> 0]]
            : r \in CommandOutcomes(p)} : p \in AccessorProps}

\* player.position / .duration / .paused / .volume
AccessorRead ==
  /\ UNCHANGED <<programVars, codec>>
  /\ accCall.result.kind = "pending"
  /\ accCall' = [accCall EXCEPT !.result = Accessor(accCall.prop, accCall.ret)]

NextAccessor == AccessorRead

\* ------------------------------------------------------------------------
\* MpvPlayer sessions (player.py): play() and stop() in steps, the engine
\* processes and the sockets they leave behind
\* ------------------------------------------------------------------------

Workers == 1..NumWorkers

\* `for _ in range(30)`
PollAttempts == 30

IdleCall == [op |-> "none", at |-> "idle"]
Call(op, at) == [op |-> op, at |-> at]

\* A returned call: its result, the path it took, the call that returned
\* before it, and self._proc, self._sock, the socket file and is_running as
\* it left them; quit: that process had exited by itself.
EndOp(op, ret, how, pr, so, fi, run) ==
  [op |-> op, ret |-> ret, how |-> how, prevOp |-> lastOp.op, proc |-> pr,
   sock |-> so, file |-> fi, running |-> run, quit |-> pr \in selfExited,
   raised |-> FALSE]

InitSession ==
  /\ nspawned = 0
  /\ alive = {}
  /\ selfExited = {}
  /\ sockBound = {}
  /\ nsock = 0
  /\ openSocks = {}
  /\ p_proc = 0
  /\ p_sock = 0
  /\ p_file = 0
  /\ wpc = [w \in Workers |-> IdleCall]
  /\ polls = [w \in Workers |-> 0]
  /\ lastOp = [op |-> "none", ret |-> "none", how |-> "none",
               prevOp |-> "none", proc |-> 0, sock |-> 0, file |-> 0,
               running |-> FALSE, quit |-> FALSE, raised |-> FALSE]

AllIdle == \A w \in Workers : wpc[w] = IdleCall

\* A plausible slip: play() spawns without stopping the previous session.
PlaySkipsStop == "spawn"

\* play() begins with `self.stop()`.
PlayFirstStep == "term"

\* A thread calls play() while no other call is in progress.
CallPlay(w) ==
  /\ UNCHANGED notSession
  /\ AllIdle
  /\ wpc' = [wpc EXCEPT ![w] = Call("play", PlayFirstStep)]
  /\ UNCHANGED <<nspawned, alive, selfExited, sockBound, nsock, openSocks, p_proc, p_sock,
                 p_file, polls, lastOp>>

\* A thread calls stop() while no other call is in progress.
CallStop(w) ==
  /\ UNCHANGED notSession
  /\ AllIdle
  /\ wpc' = [wpc EXCEPT ![w] = Call("stop", "term")]
  /\ UNCHANGED <<nspawned, alive, selfExited, sockBound, nsock, openSocks, p_proc, p_sock,
                 p_file, polls, lastOp>>

\* stop(): `if self._proc and self._proc.poll() is None`: terminate(), then
\* wait(timeout=3), then kill() on TimeoutExpired: the process has exited
\* or is killed.
StopTerminate(w) ==
  /\ UNCHANGED notSession
  /\ wpc[w].at = "term"
  /\ alive' = IF p_proc # 0 /\ p_proc \in alive
              THEN alive \ {p_proc} ELSE alive
  /\ wpc' = [wpc EXCEPT ![w].at = "clean"]
  /\ UNCHANGED <<nspawned, selfExited, sockBound, nsock, openSocks, p_proc,
                 p_sock, p_file, polls, lastOp>>

\* A plausible slip: the socket file is left in place.
StopKeepsFile == p_file

\* `if os.path.exists(path): os.unlink(path)`, OSError ignored (the file
\* vanished in between).
StopUnlinks == 0

\* stop(): self._proc = None; the socket is closed (OSError ignored) and
\* forgotten; the socket file is removed. stop() returns; inside play() the
\* spawn follows.
StopClean(w) ==
  /\ UNCHANGED notSession
  /\ wpc[w].at = "clean"
  /\ p_proc' = 0
  /\ openSocks' = openSocks \ {p_sock}
  /\ p_sock' = 0
  /\ p_file' = StopUnlinks
  /\ IF wpc[w].op = "stop"
     THEN /\ wpc' = [wpc EXCEPT ![w] = IdleCall]
          /\ lastOp' = EndOp("stop", "none", "stopped", p_proc', p_sock',
                             p_file', FALSE)
     ELSE /\ wpc' = [wpc EXCEPT ![w].at = "spawn"]
          /\ UNCHANGED lastOp
  /\ UNCHANGED <<nspawned, alive, selfExited, sockBound, nsock, polls>>

\* play(): Popen raises FileNotFoundError (return False) or the engine
\* process starts and self._proc holds it.
PlaySpawn(w) ==
  /\ UNCHANGED notSession
  /\ wpc[w].at = "spawn"
  /\ \E found \in BOOLEAN :
       IF found
       THEN /\ nspawned < MaxSpawns
            /\ nspawned' = nspawned + 1
            /\ alive' = alive \cup {nspawned + 1}
            /\ p_proc' = nspawned + 1
            /\ wpc' = [wpc EXCEPT ![w].at = "poll"]
            /\ polls' = [polls EXCEPT ![w] = 0]
            /\ UNCHANGED lastOp
       ELSE /\ wpc' = [wpc EXCEPT ![w] = IdleCall]
            /\ lastOp' = EndOp("play", "false", "nospawn", p_proc, p_sock,
                               p_file, p_proc # 0 /\ p_proc \in alive)
            /\ UNCHANGED <<nspawned, alive, p_proc, polls>>
  /\ UNCHANGED <<selfExited, sockBound, nsock, openSocks, p_sock, p_file>>

\* play(): one pass of the poll loop. The file exists: break, _connect
\* follows. Else sleep 0.1 s; after the last failed check the loop's else
\* clause returns False.
PlayPoll(w) ==
  /\ UNCHANGED notSession
  /\ wpc[w].at = "poll"
  /\ IF p_file # 0
     THEN /\ wpc' = [wpc EXCEPT ![w].at = "connect"]
          /\ polls' = [polls EXCEPT ![w] = 0]
          /\ UNCHANGED lastOp
     ELSE IF polls[w] + 1 < PollAttempts
     THEN /\ polls' = [polls EXCEPT ![w] = polls[w] + 1]
          /\ UNCHANGED <<wpc, lastOp>>
     ELSE /\ polls' = [polls EXCEPT ![w] = 0]
          /\ wpc' = [wpc EXCEPT ![w] = IdleCall]
          /\ lastOp' = EndOp("play", "false", "nosocket", p_proc, p_sock,
                             p_file, p_proc # 0 /\ p_proc \in alive)
  /\ UNCHANGED <<nspawned, alive, selfExited, sockBound, nsock, openSocks, p_proc, p_sock,
                 p_file>>

\* A plausible slip: _connect reports success whatever happened.
ConnectReturnsTrue(ok) == "true"

\* _connect: `return True` after connect(), `return False` in the except
\* clause.
ConnectReturns(ok) == IF ok THEN "true" ELSE "false"

\* _connect: the socket connects when the process that made the file is
\* listening; otherwise (refused, file gone, other OSError) self._sock is
\* None. play() returns _connect's result.
PlayConnect(w) ==
  /\ UNCHANGED notSession
  /\ wpc[w].at = "connect"
  /\ \E ok \in BOOLEAN :
       /\ ok => (p_file # 0 /\ p_file \in alive)
       /\ IF ok
          THEN /\ nsock' = nsock + 1
               /\ openSocks' = openSocks \cup {nsock + 1}
               /\ p_sock' = nsock + 1
          ELSE /\ p_sock' = 0
               /\ UNCHANGED <<nsock, openSocks>>
       /\ lastOp' = EndOp("play", ConnectReturns(ok),
                          IF ok THEN "connected" ELSE "noconnect",
                          p_proc, p_sock', p_file,
                          p_proc # 0 /\ p_proc \in alive)
  /\ wpc' = [wpc EXCEPT ![w] = IdleCall]
  /\ UNCHANGED <<nspawned, alive, selfExited, sockBound, p_proc, p_file, polls>>

\* The engine creates its control socket at --input-ipc-server.
EngineBind ==
  /\ UNCHANGED notSession
  /\ \E e \in alive \ sockBound :
       /\ sockBound' = sockBound \cup {e}
       /\ p_file' = e
  /\ UNCHANGED <<nspawned, alive, selfExited, nsock, openSocks, p_proc, p_sock,
                 wpc, polls, lastOp>>

\* An engine process exits by itself (end of the stream, a crash); it may
\* remove its socket file on the way.
EngineQuit ==
  /\ UNCHANGED notSession
  /\ \E e \in alive :
       /\ alive' = alive \ {e}
       /\ selfExited' = selfExited \cup {e}
       /\ \E unlinks \in BOOLEAN :
            p_file' = IF unlinks /\ p_file = e THEN 0 ELSE p_file
  /\ UNCHANGED <<nspawned, sockBound, nsock, openSocks, p_proc, p_sock, wpc,
                 polls, lastOp>>

NextSession ==
  \/ \E w \in Workers : CallPlay(w)
  \/ \E w \in Workers : CallStop(w)
  \/ \E w \in Workers : StopTerminate(w)
  \/ \E w \in Workers : StopClean(w)
  \/ \E w \in Workers : PlaySpawn(w)
  \/ \E w \in Workers : PlayPoll(w)
  \/ \E w \in Workers : PlayConnect(w)
  \/ EngineBind
  \/ EngineQuit

\* A play worker calls play() while another worker may still be inside its
\* own play(): thread workers of the "play" group are superseded, not
\* interrupted. No stop() of its own is in progress.
PlayOverlapping(w) ==
  /\ UNCHANGED notSession
  /\ wpc[w] = IdleCall
  /\ \A v \in Workers : wpc[v].op # "stop"
  /\ wpc' = [wpc EXCEPT ![w] = Call("play", PlayFirstStep)]
  /\ UNCHANGED <<nspawned, alive, selfExited, sockBound, nsock, openSocks,
                 p_proc, p_sock, p_file, polls, lastOp>>

NextOverlap ==
  \/ \E w \in Workers : PlayOverlapping(w)
  \/ \E w \in Workers : CallStop(w)
  \/ \E w \in Workers : StopTerminate(w)
  \/ \E w \in Workers : StopClean(w)
  \/ \E w \in Workers : PlaySpawn(w)
  \/ \E w \in Workers : PlayPoll(w)
  \/ \E w \in Workers : PlayConnect(w)
  \/ EngineBind
  \/ EngineQuit

\* ------------------------------------------------------------------------
\* Framing (net.py)
\* ------------------------------------------------------------------------

Conns == 1..MaxConns

\* A TrackEntry as it appears in a frame. dict = FALSE: the `entry` value is
\* missing or is not a JSON object. hasId/hasTitle: the key is present.
NoEntry == [dict |-> FALSE, hasId |-> FALSE, hasTitle |-> FALSE,
            id |-> "", title |-> ""]
Entry(hi, ht, i, t) == [dict |-> TRUE, hasId |-> hi, hasTitle |-> ht,
                        id |-> i, title |-> t]
Entries ==
  {Entry(TRUE, TRUE, i, t) : i \in {"", "x"}, t \in {"", "Song"}}
  \cup {Entry(TRUE, FALSE, i, "") : i \in {"", "x"}}
  \cup {Entry(FALSE, TRUE, "", t) : t \in {"", "Song"}}
  \cup {Entry(FALSE, FALSE, "", "")}

\* A decoded JSON value. json: "null" | "nonobj" (array, number, string,
\* boolean) | "obj"; type: the object's `type` value ("" when absent).
\* snap names the PlaybackSnapshot a sync carries (0: none).
Msg(ty, e, ti, sn) ==
  [json |-> "obj", type |-> ty, entry |-> e, title |-> ti, snap |-> sn]
JsonValue(j) ==
  [json |-> j, type |-> "", entry |-> NoEntry, title |-> "", snap |-> 0]
None == JsonValue("none")
JsonNull == JsonValue("null")
JsonNonObj == JsonValue("nonobj")

\* What a peer can put on the wire as one line.
PeerValues ==
  {JsonNull, JsonNonObj}
  \cup {Msg(ty, NoEntry, "", 0) :
          ty \in {"hello", "sync", "ack", "bogus", "", "add"}}
  \cup {Msg("add", e, "", 0) : e \in Entries}

\* encode_msg: the compact JSON text of msg followed by one newline. On the
\* channels the text is carried as the value it stands for; the text itself
\* is JsonDumps / ParseValue (SpecCodec).
EncodeMsg(msg) == <<msg, "\n">>

\* What readline() under wait_for produced: io = "timeout" | "error" | "eof"
\* | "line"; for a line, utf8/wellformed say whether it decodes and parses,
\* and value is the JSON value it holds.
RawLine(io, ok, v) == [io |-> io, decodes |-> ok, value |-> v]
RawInputs ==
  {RawLine(io, FALSE, None) : io \in {"timeout", "error", "eof"}}
  \cup {RawLine("line", FALSE, None)}
  \cup {RawLine("line", TRUE, v) : v \in PeerValues}

\* read_msg: None on timeout/ConnectionError/OSError, on an empty line
\* (EOF), on undecodable bytes or invalid JSON; else json.loads' value
\* (which is None for the JSON text `null`).
ReadMsg(raw) ==
  IF raw.io # "line" THEN None
  ELSE IF ~raw.decodes THEN None
  ELSE IF raw.value.json = "null" THEN None
  ELSE raw.value

\* ------------------------------------------------------------------------
\* JukeboxServer (net.py)
\* ------------------------------------------------------------------------

NoWrites == [c \in Conns |-> <<>>]
\* op: the step; conn: the handler's connection; msg: the value read_msg
\* returned; onAdd: the entries on_add was invoked with; writes: per
\* connection, the byte strings passed to writer.write, in order; failed:
\* the connections whose write raised; before: the registry at the start.
SrvOp(op, c, m, adds, w, f, b) ==
  [op |-> op, conn |-> c, msg |-> m, onAdd |-> adds, writes |-> w,
   failed |-> f, before |-> b]
SrvQuiet(op, c) == SrvOp(op, c, None, <<>>, NoWrites, {}, clients)

InitServer ==
  /\ srv = "new"
  /\ stopPc = "idle"
  /\ on_add = FALSE
  /\ clients = <<>>
  /\ hs = [c \in Conns |-> "free"]
  /\ cancelReq = [c \in Conns |-> FALSE]
  /\ wclosed = [c \in Conns |-> FALSE]
  /\ wbroken = [c \in Conns |-> FALSE]
  /\ lastSrv = SrvOp("init", 0, None, <<>>, NoWrites, {}, <<>>)

Range(s) == {s[i] : i \in 1..Len(s)}
\* dict.pop(task, None)
Pop(reg, c) == SelectSeq(reg, LAMBDA x : x # c)
\* client_count
client_count == Len(clients)

\* A plausible slip: only one of the two required keys is tested.
EntryValidIdOnly(e) == e.hasId

\* `"id" in entry and "title" in entry`
EntryValid(e) == e.hasId /\ e.hasTitle

\* _process(msg, writer). exc: msg.get raised AttributeError (msg is not a
\* dict); onAdd: the entries handed to on_add; acks: the byte strings
\* passed to writer.write.
Process(msg) ==
  IF msg.json # "obj"
  THEN [exc |-> TRUE, onAdd |-> <<>>, acks |-> <<>>]
  ELSE IF msg.type = "add" /\ msg.entry.dict /\ EntryValid(msg.entry)
  THEN [exc |-> FALSE,
        onAdd |-> IF on_add THEN <<msg.entry>> ELSE <<>>,
        acks |-> <<EncodeMsg(Msg("ack", NoEntry, msg.entry.title, 0))>>]
  ELSE [exc |-> FALSE, onAdd |-> <<>>, acks |-> <<>>]

\* on_mount in host mode: on_add is assigned, then start() listens.
SrvStart ==
  /\ UNCHANGED notServer
  /\ srv = "new" /\ stopPc = "idle"
  /\ srv' = "listening"
  /\ on_add' = TRUE
  /\ lastSrv' = SrvQuiet("start", 0)
  /\ UNCHANGED <<stopPc, clients, hs, cancelReq, wclosed, wbroken>>

\* asyncio accepts a connection and creates the task that will run
\* _handle_client; the task has not run yet.
Accept(c) ==
  /\ UNCHANGED notServer
  /\ srv = "listening"
  /\ hs[c] = "free"
  /\ \A d \in Conns : d < c => hs[d] # "free"
  /\ hs' = [hs EXCEPT ![c] = "pending"]
  /\ lastSrv' = SrvQuiet("accept", c)
  /\ UNCHANGED <<srv, stopPc, on_add, clients, cancelReq, wclosed, wbroken>>

\* _handle_client up to its first await: the task registers its writer.
HandlerStart(c) ==
  /\ UNCHANGED notServer
  /\ hs[c] = "pending"
  /\ clients' = Append(Pop(clients, c), c)
  /\ hs' = [hs EXCEPT ![c] = "reading"]
  /\ lastSrv' = SrvQuiet("register", c)
  /\ UNCHANGED <<srv, stopPc, on_add, cancelReq, wclosed, wbroken>>

\* The `finally:` of _handle_client: pop the task, close the writer.
HandlerFinally(c) ==
  /\ clients' = Pop(clients, c)
  /\ wclosed' = [wclosed EXCEPT ![c] = TRUE]
  /\ hs' = [hs EXCEPT ![c] = "done"]
  /\ cancelReq' = [cancelReq EXCEPT ![c] = FALSE]

\* One iteration of the handler's loop: read_msg, then break on None or
\* _process the message.
HandlerRead(c) ==
  /\ UNCHANGED notServer
  /\ hs[c] = "reading"
  /\ ~cancelReq[c]
  /\ \E raw \in RawInputs :
       LET msg == ReadMsg(raw)
           p == Process(msg)
           w == [NoWrites EXCEPT ![c] = p.acks]
       IN IF msg = None
          THEN /\ HandlerFinally(c)
               /\ lastSrv' = SrvQuiet("read", c)
          ELSE /\ lastSrv' = SrvOp("read", c, msg, p.onAdd, w,
                                   IF wbroken[c] /\ p.acks # <<>>
                                   THEN {c} ELSE {}, clients)
               /\ IF p.exc
                  THEN HandlerFinally(c)
                  ELSE UNCHANGED <<clients, wclosed, hs, cancelReq>>
  /\ UNCHANGED <<srv, stopPc, on_add, wbroken>>

\* CancelledError is thrown into the handler at its await: caught, then
\* the `finally:` runs.
HandlerCancelled(c) ==
  /\ UNCHANGED notServer
  /\ hs[c] = "reading"
  /\ cancelReq[c]
  /\ HandlerFinally(c)
  /\ lastSrv' = SrvQuiet("cancelled", c)
  /\ UNCHANGED <<srv, stopPc, on_add, wbroken>>

\* The peer goes away or the link drops: writes to the connection raise.
ConnBreak(c) ==
  /\ UNCHANGED notServer
  /\ hs[c] \in {"pending", "reading"}
  /\ ~wbroken[c]
  /\ wbroken' = [wbroken EXCEPT ![c] = TRUE]
  /\ lastSrv' = SrvQuiet("break", c)
  /\ UNCHANGED <<srv, stopPc, on_add, clients, hs, cancelReq, wclosed>>

\* A plausible slip: the pass over the registry ends at the first write
\* that raises.
RECURSIVE BroadcastLoopAbort(_, _, _, _, _)
BroadcastLoopAbort(reg, i, data, dead, writes) ==
  IF i > Len(reg) THEN [dead |-> dead, writes |-> writes]
  ELSE LET c == reg[i]
           w == [writes EXCEPT ![c] = Append(@, data)]
       IN IF wbroken[c]
          THEN [dead |-> Append(dead, c), writes |-> w]
          ELSE BroadcastLoopAbort(reg, i + 1, data, dead, w)

\* `for task, writer in self._clients.items(): try: writer.write(data)
\* except (ConnectionError, OSError): dead.append(task)`
RECURSIVE BroadcastLoop(_, _, _, _, _)
BroadcastLoop(reg, i, data, dead, writes) ==
  IF i > Len(reg) THEN [dead |-> dead, writes |-> writes]
  ELSE LET c == reg[i]
           w == [writes EXCEPT ![c] = Append(@, data)]
       IN BroadcastLoop(reg, i + 1, data,
                        IF wbroken[c] THEN Append(dead, c) ELSE dead, w)

\* `for task in dead: self._clients.pop(task, None)`
RECURSIVE Prune(_, _)
Prune(reg, dead) ==
  IF dead = <<>> THEN reg ELSE Prune(Pop(reg, Head(dead)), Tail(dead))

Snapshots == {Msg("sync", NoEntry, "", 1), Msg("sync", NoEntry, "", 2)}

\* broadcast(msg): no await inside, so one step.
Broadcast ==
  /\ UNCHANGED notServer
  /\ \E m \in Snapshots :
       IF clients = <<>>
       THEN /\ lastSrv' = SrvOp("broadcast", 0, m, <<>>, NoWrites, {}, clients)
            /\ UNCHANGED clients
       ELSE LET r == BroadcastLoop(clients, 1, EncodeMsg(m), <<>>, NoWrites)
            IN /\ clients' = Prune(clients, r.dead)
               /\ lastSrv' = SrvOp("broadcast", 0, m, <<>>, r.writes,
                                   Range(r.dead), clients)
  /\ UNCHANGED <<srv, stopPc, on_add, hs, cancelReq, wclosed, wbroken>>

\* stop(), first half: `if self._server: self._server.close()`, then the
\* await of wait_closed(). Without a server the whole of stop() is one
\* step over an empty registry.
SrvStopBegin ==
  /\ UNCHANGED notServer
  /\ stopPc = "idle"
  /\ IF srv = "new"
     THEN /\ stopPc' = "returned"
          /\ clients' = <<>>
          /\ UNCHANGED srv
     ELSE /\ stopPc' = "waiting"
          /\ srv' = "closed"
          /\ UNCHANGED clients
  /\ lastSrv' = SrvQuiet("stop", 0)
  /\ UNCHANGED <<on_add, hs, cancelReq, wclosed, wbroken>>

\* stop(), second half: cancel every registered task, close its writer,
\* clear the registry.
SrvStopSweep ==
  /\ UNCHANGED notServer
  /\ stopPc = "waiting"
  /\ stopPc' = "returned"
  /\ cancelReq' = [c \in Conns |->
                     IF c \in Range(clients) /\ hs[c] # "done"
                     THEN TRUE ELSE cancelReq[c]]
  /\ wclosed' = [c \in Conns |-> wclosed[c] \/ c \in Range(clients)]
  /\ clients' = <<>>
  /\ lastSrv' = SrvQuiet("sweep", 0)
  /\ UNCHANGED <<srv, on_add, hs, wbroken>>

NextServer ==
  \/ SrvStart
  \/ \E c \in Conns : Accept(c)
  \/ \E c \in Conns : HandlerStart(c)
  \/ \E c \in Conns : HandlerRead(c)
  \/ \E c \in Conns : HandlerCancelled(c)
  \/ \E c \in Conns : ConnBreak(c)
  \/ Broadcast
  \/ SrvStopBegin
  \/ SrvStopSweep

\* ------------------------------------------------------------------------
\* JukeboxClient (net.py), driven by _start_client_listener (app.py)
\* ------------------------------------------------------------------------


InitClient ==
  /\ connected = FALSE
  /\ cl_reader = FALSE
  /\ cl_writer = "none"
  /\ on_sync = FALSE
  /\ connPc = "init"
  /\ connRet = "none"
  /\ openOutcome = "none"
  /\ lstPc = "idle"
  /\ received = <<>>
  /\ delivered = <<>>

\* The entries a search put in self._results.
SongX == Entry(TRUE, TRUE, "x", "Song")
SongY == Entry(TRUE, TRUE, "y", "Tune")
Results == {SongX, SongY}

\* send_add's effects: the entry, whether self._writer and self._connected
\* were set when it ran, the byte strings it passed to writer.write, whether
\* write/drain raised, self._connected when it returned, and whether an
\* exception left send_add.
AddCall(st, e, w, c, fr, f, ca, r) ==
  [state |-> st, entry |-> e, hadWriter |-> w, wasConnected |-> c,
   frames |-> fr, failed |-> f, connAfter |-> ca, raised |-> r]
NoAdd == AddCall("none", NoEntry, FALSE, FALSE, <<>>, FALSE, FALSE, FALSE)

InitSender ==
  /\ addPc = "idle"
  /\ lastAdd = NoAdd
  /\ closedOnce = FALSE

\* Before cli.py constructs the application.
InitApp ==
  /\ mode = "none"
  /\ a_queue = <<>>
  /\ a_track = NoEntry
  /\ playArg = NoEntry
  /\ lastUi = "none"

\* The body of the sync message _tick builds: snap 1 is a track playing
\* with an empty queue, snap 2 an idle engine with two queued entries.
SnapshotBody(sn) ==
  IF sn = 1
  THEN [queue |-> <<>>, track |-> SongX, position |-> 30, duration |-> 200,
        paused |-> FALSE]
  ELSE [queue |-> <<SongY, SongX>>, track |-> NoEntry, position |-> 0,
        duration |-> 0, paused |-> FALSE]

\* json.loads(line): the value whose JSON text the line holds.
JsonLoads(line) == line[1]

\* What a host can put on the wire as one line.
HostValues ==
  {JsonNull, JsonNonObj}
  \cup Snapshots
  \cup {Msg("ack", NoEntry, "Song", 0), Msg("", NoEntry, "", 0)}

HostInputs ==
  {RawLine(io, FALSE, None) : io \in {"timeout", "error", "eof"}}
  \cup {RawLine("line", FALSE, None)}
  \cup {RawLine("line", TRUE, JsonLoads(EncodeMsg(v))) : v \in HostValues}

OpenOutcomes == {"ok", "refused", "unreachable", "timeout"}

\* `ytm join`: the application is constructed in client mode with a
\* JukeboxClient.
Join ==
  /\ UNCHANGED <<notClient, clientVars, senderVars>>
  /\ mode = "none"
  /\ mode' = "client"
  /\ UNCHANGED <<a_queue, a_track, playArg, lastUi>>

\* on_mount in client mode calls _start_client_listener: on_sync is
\* assigned, then connect() starts awaiting open_connection under
\* wait_for(5.0).
ClientStart ==
  /\ UNCHANGED <<notClient, senderVars, appVars>>
  /\ mode = "client"
  /\ connPc = "init"
  /\ on_sync' = TRUE
  /\ connPc' = "opening"
  /\ UNCHANGED <<connected, cl_reader, cl_writer, connRet, openOutcome,
                 lstPc, received, delivered>>

\* A plausible slip: the flag is raised before the connection is open.
FlagSetBeforeOpen == TRUE

\* `except (OSError, asyncio.TimeoutError): return False` leaves
\* self._connected as it was.
FlagAfterFailedOpen == connected

\* open_connection returns or raises. On success the streams are stored,
\* connected is set and the hello frame is written; drain() is awaited.
ConnectOpened ==
  /\ UNCHANGED <<notClient, senderVars, appVars>>
  /\ connPc = "opening"
  /\ \E o \in OpenOutcomes :
       /\ openOutcome' = o
       /\ IF o = "ok"
          THEN /\ cl_reader' = TRUE
               /\ cl_writer' = "open"
               /\ connected' = TRUE
               /\ connPc' = "drain"
               /\ UNCHANGED connRet
          ELSE /\ connected' = FlagAfterFailedOpen
               /\ connRet' = "false"
               /\ connPc' = "returned"
               /\ UNCHANGED <<cl_reader, cl_writer>>
  /\ UNCHANGED <<on_sync, lstPc, received, delivered>>

\* drain() returns (return True) or raises ConnectionResetError, an
\* OSError (return False).
ConnectDrained ==
  /\ UNCHANGED <<notClient, senderVars, appVars>>
  /\ connPc = "drain"
  /\ \E ok \in BOOLEAN : connRet' = IF ok THEN "true" ELSE "false"
  /\ connPc' = "returned"
  /\ UNCHANGED <<connected, cl_reader, cl_writer, on_sync, openOutcome,
                 lstPc, received, delivered>>

\* `while self._reader and self._connected`
ListenCond(conn) == cl_reader /\ conn

\* A plausible slip: the type test is dropped, every message is delivered.
ListenDeliversAny(msg) == on_sync

\* `msg.get("type") == "sync" and self.on_sync`
ListenDelivers(msg) == msg.type = "sync" /\ on_sync

\* `await self._client.listen()` after connect() returned True: the loop
\* condition is evaluated for the first time.
ListenEnter ==
  /\ UNCHANGED <<notClient, senderVars, appVars>>
  /\ connPc = "returned" /\ connRet = "true"
  /\ lstPc = "idle"
  /\ lstPc' = IF ListenCond(connected) THEN "reading" ELSE "returned"
  /\ UNCHANGED <<connected, cl_reader, cl_writer, on_sync, connPc, connRet,
                 openOutcome, received, delivered>>

\* A plausible slip: the snapshot's queue is appended to the mirror.
ApplySyncMerged(old, state) == old \o state.queue

\* _apply_sync: `self._queue = state.get("queue", [])`
ApplySyncQueue(old, state) == state.queue

\* _apply_sync: `self._track = state.get("track")`
ApplySyncTrack(state) == state.track

\* One iteration of listen(): read_msg returns; None ends the loop with
\* connected := False; a non-dict value raises AttributeError at msg.get;
\* otherwise on_sync (the application's _apply_sync) may be invoked and the
\* loop condition is re-evaluated.
ListenRead ==
  /\ UNCHANGED <<notClient, senderVars>>
  /\ lstPc = "reading"
  /\ \E raw \in HostInputs :
       LET msg == ReadMsg(raw) IN
       IF msg = None
       THEN /\ connected' = FALSE
            /\ lstPc' = "returned"
            /\ UNCHANGED <<received, delivered, a_queue, a_track>>
       ELSE /\ Len(received) < MaxFrames
            /\ received' = Append(received, msg)
            /\ IF msg.json # "obj"
               THEN /\ lstPc' = "raised"
                    /\ UNCHANGED <<delivered, connected, a_queue, a_track>>
               ELSE /\ IF ListenDelivers(msg)
                       THEN /\ delivered' = Append(delivered, msg)
                            /\ a_queue' = ApplySyncQueue(a_queue,
                                                         SnapshotBody(msg.snap))
                            /\ a_track' = ApplySyncTrack(SnapshotBody(msg.snap))
                       ELSE UNCHANGED <<delivered, a_queue, a_track>>
                    /\ lstPc' = IF ListenCond(connected)
                                THEN "reading" ELSE "returned"
                    /\ UNCHANGED connected
  /\ UNCHANGED <<cl_reader, cl_writer, on_sync, connPc, connRet, openOutcome>>
  /\ UNCHANGED <<mode, playArg, lastUi>>

\* close(): connected := False, the writer is closed when there is one.
ClientClose ==
  /\ UNCHANGED <<notClient, appVars>>
  /\ mode = "client"
  /\ connected' = FALSE
  /\ cl_writer' = IF cl_writer = "none" THEN "none" ELSE "closed"
  /\ closedOnce' = TRUE
  /\ UNCHANGED <<cl_reader, on_sync, connPc, connRet, openOutcome, lstPc,
                 received, delivered, addPc, lastAdd>>

\* A plausible slip: only the writer is tested.
SendAddCondWriterOnly == cl_writer # "none"

\* `if self._writer and self._connected`
SendAddCond == cl_writer # "none" /\ connected

\* The send_add task runs up to `await self._writer.drain()`, or to its end
\* when the condition is false.
SendAddRun ==
  /\ UNCHANGED <<notClient, clientVars, appVars>>
  /\ addPc = "pending"
  /\ IF SendAddCond
     THEN /\ addPc' = "drain"
          /\ lastAdd' = AddCall("drain", lastAdd.entry, cl_writer # "none",
                                connected,
                                <<EncodeMsg(Msg("add", lastAdd.entry, "", 0))>>,
                                FALSE, connected, FALSE)
     ELSE /\ addPc' = "idle"
          /\ lastAdd' = AddCall("done", lastAdd.entry, cl_writer # "none",
                                connected, <<>>, FALSE, connected, FALSE)
  /\ UNCHANGED closedOnce

\* drain() returns, or raises a ConnectionError/OSError:
\* `self._connected = False`.
SendAddDrained ==
  /\ UNCHANGED <<notClient, appVars>>
  /\ addPc = "drain"
  /\ \E ok \in BOOLEAN :
       /\ connected' = IF ok THEN connected ELSE FALSE
       /\ lastAdd' = [lastAdd EXCEPT !.state = "done", !.failed = ~ok,
                                     !.connAfter = connected']
  /\ addPc' = "idle"
  /\ UNCHANGED <<cl_reader, cl_writer, on_sync, connPc, connRet, openOutcome,
                 lstPc, received, delivered, closedOnce>>

\* ---- key bindings and the timer (app.py) ----

\* A plausible slip: entries are sent to the host only in host mode.
SendsToHostInverted == mode = "host"

\* `if self._mode == "client" and self._client` (join always passes a client)
SendsToHost == mode = "client"

\* create_task(self._client.send_add(entry))
SpawnSendAdd(e) ==
  /\ addPc = "idle"
  /\ addPc' = "pending"
  /\ lastAdd' = AddCall("pending", e, FALSE, FALSE, <<>>, FALSE, FALSE, FALSE)
  /\ UNCHANGED closedOnce

\* list.pop(i), 0-based
PopAt(q, i) == SubSeq(q, 1, i) \o SubSeq(q, i + 2, Len(q))

\* The workers of the "play" group.
IdleWorker == [at |-> "idle", entry |-> NoEntry, cancelled |-> FALSE]

InitHost ==
  /\ a_loading = FALSE
  /\ pw = [w \in Workers |-> IdleWorker]
  /\ added = <<>>
  /\ started = <<>>

\* self._play_entry(e): @work(thread=True, exclusive=True, group="play")
\* flags the group's workers cancelled (a running thread goes on) and
\* schedules a new worker, which takes the lowest free slot.
StartPlayWorker(e) ==
  LET free == {w \in Workers : pw[w].at = "idle"} IN
  /\ free # {}
  /\ LET n == CHOOSE w \in free : \A v \in free : w <= v IN
       pw' = [w \in Workers |->
                IF w = n
                THEN [at |-> "created", entry |-> e, cancelled |-> FALSE]
                ELSE IF pw[w].at = "idle" THEN pw[w]
                ELSE [pw[w] EXCEPT !.cancelled = TRUE]]
  /\ playArg' = e

\* action_queue_add on the highlighted result e.
ActionQueueAdd ==
  /\ UNCHANGED <<notApp, clientVars>>
  /\ mode # "none"
  /\ \E e \in Results :
       IF SendsToHost
       THEN /\ SpawnSendAdd(e)
            /\ UNCHANGED <<a_queue, added>>
       ELSE /\ Len(a_queue) < MaxQueue /\ Len(added) < MaxAdds
            /\ a_queue' = Append(a_queue, e)
            /\ added' = Append(added, e)
            /\ UNCHANGED senderVars
  /\ lastUi' = "queue_add"
  /\ UNCHANGED <<mode, a_track, playArg, a_loading, pw, started>>

\* _on_result_selected on the result e.
OnResultSelected ==
  /\ UNCHANGED <<notApp, clientVars>>
  /\ mode # "none"
  /\ \E e \in Results :
       IF SendsToHost
       THEN /\ SpawnSendAdd(e)
            /\ UNCHANGED <<playArg, pw>>
       ELSE /\ StartPlayWorker(e)
            /\ UNCHANGED senderVars
  /\ lastUi' = "result_selected"
  /\ UNCHANGED <<mode, a_queue, a_track, a_loading, added, started>>

\* _on_queue_selected on row idx of the queue table.
OnQueueSelected ==
  /\ UNCHANGED <<notApp, clientVars, senderVars>>
  /\ mode # "none"
  /\ \E idx \in 0..(MaxQueue - 1) :
       IF mode # "client" /\ idx < Len(a_queue)
       THEN /\ a_queue' = PopAt(a_queue, idx)
            /\ StartPlayWorker(a_queue[idx + 1])
       ELSE UNCHANGED <<a_queue, playArg, pw>>
  /\ lastUi' = "queue_selected"
  /\ UNCHANGED <<mode, a_track, a_loading, added, started>>

\* action_queue_remove with the queue table focused on row idx.
ActionQueueRemove ==
  /\ UNCHANGED <<notApp, clientVars, senderVars>>
  /\ mode # "none"
  /\ \E idx \in 0..(MaxQueue - 1) :
       IF mode # "client" /\ idx < Len(a_queue)
       THEN a_queue' = PopAt(a_queue, idx)
       ELSE UNCHANGED a_queue
  /\ lastUi' = "queue_remove"
  /\ UNCHANGED <<mode, a_track, playArg, a_loading, pw, added, started>>

\* action_next_track
ActionNextTrack ==
  /\ UNCHANGED <<notApp, clientVars, senderVars>>
  /\ mode # "none"
  /\ IF mode # "client" /\ a_queue # <<>>
     THEN /\ a_queue' = Tail(a_queue)
          /\ StartPlayWorker(Head(a_queue))
          /\ started' = Append(started, Head(a_queue))
     ELSE UNCHANGED <<a_queue, playArg, pw, started>>
  /\ lastUi' = "next_track"
  /\ UNCHANGED <<mode, a_track, a_loading, added>>

\* _tick in client mode: `if self._mode == "client": return`
Tick ==
  /\ UNCHANGED <<notClient, clientVars, senderVars>>
  /\ mode = "client"
  /\ lastUi' = "tick"
  /\ UNCHANGED <<mode, a_queue, a_track, playArg>>

\* ------------------------------------------------------------------------
\* The application on the host (app.py): remote adds, the 0.5 s tick, the
\* play workers, playing a search result at once, skipping to the next
\* track; no row of the queue is removed or selected by hand. The tick's
\* reads of position, duration and paused are the bridge's commands and its
\* broadcast is the server's; neither changes the application's state.
\* ------------------------------------------------------------------------

\* cli.host: YtmApp(mode="host", server=...) is mounted.
HostStart ==
  /\ UNCHANGED <<notClient, clientVars, senderVars>>
  /\ mode = "none"
  /\ mode' = "host"
  /\ UNCHANGED <<a_queue, a_track, playArg, lastUi>>

\* a list that took in the entry at its head
QueuePrepend(q, e) == <<e>> \o q

\* self._queue.append(entry)
QueueAppend(q, e) == Append(q, e)

\* _on_remote_add(entry), called by the server for an accepted add.
OnRemoteAdd ==
  /\ UNCHANGED <<notApp, clientVars, senderVars>>
  /\ mode = "host"
  /\ Len(a_queue) < MaxQueue /\ Len(added) < MaxAdds
  /\ \E e \in Results :
       /\ a_queue' = QueueAppend(a_queue, e)
       /\ added' = Append(added, e)
  /\ UNCHANGED <<mode, a_track, playArg, lastUi, a_loading, pw, started>>

\* _tick outside client mode.
TickHost ==
  /\ UNCHANGED <<notApp, clientVars, senderVars>>
  /\ mode \in {"local", "host"}
  /\ IF a_track # NoEntry /\ ~IsRunning /\ ~a_loading
     THEN /\ a_track' = NoEntry
          /\ IF a_queue # <<>>
             THEN /\ a_queue' = Tail(a_queue)
                  /\ StartPlayWorker(Head(a_queue))
                  /\ started' = Append(started, Head(a_queue))
             ELSE UNCHANGED <<a_queue, playArg, pw, started>>
     ELSE UNCHANGED <<a_track, a_queue, playArg, pw, started>>
  /\ lastUi' = "tick"
  /\ UNCHANGED <<mode, a_loading, added>>

\* _play_entry, first statements: self._loading = True; self._track = entry
WorkerBegin(w) ==
  /\ UNCHANGED <<notApp, clientVars, senderVars>>
  /\ pw[w].at = "created"
  /\ a_loading' = TRUE
  /\ a_track' = pw[w].entry
  /\ pw' = [pw EXCEPT ![w].at = "fetch", ![w].entry = NoEntry]
  /\ UNCHANGED <<mode, a_queue, playArg, lastUi, added, started>>

\* get_stream(url) returned (ok: with a stream URL): the cancelled worker
\* and the one without a stream return, the other enters player.play(),
\* which begins with stop().
WorkerFetched(w) ==
  /\ UNCHANGED <<serverVars, sessionVars, accCall, codec, clientVars,
                 senderVars>>
  /\ pw[w].at = "fetch"
  /\ \E ok \in BOOLEAN :
       IF pw[w].cancelled \/ ~ok
       THEN /\ a_loading' = FALSE
            /\ a_track' = IF pw[w].cancelled THEN a_track ELSE NoEntry
            /\ pw' = [pw EXCEPT ![w] = IdleWorker]
            /\ UNCHANGED <<proc, sock, sockFile, toEngine, fromEngine>>
       ELSE /\ pw' = [pw EXCEPT ![w].at = "play"]
            /\ proc' = "none"
            /\ sock' = "none"
            /\ sockFile' = FALSE
            /\ toEngine' = <<>>
            /\ fromEngine' = <<>>
            /\ UNCHANGED <<a_loading, a_track>>
  /\ UNCHANGED <<lock, cpc, req, rcvd, last, nextRid>>
  /\ UNCHANGED <<mode, a_queue, playArg, lastUi, added, started>>

\* player.play() returned (its result is not looked at), then
\* self._loading = False.
WorkerPlayed(w) ==
  /\ UNCHANGED <<serverVars, sessionVars, accCall, codec, clientVars,
                 senderVars>>
  /\ pw[w].at = "play"
  /\ \E spawned, appeared, attached \in BOOLEAN :
       /\ proc' = IF spawned THEN "running" ELSE "none"
       /\ sockFile' = (spawned /\ appeared)
       /\ sock' = IF spawned /\ appeared /\ attached THEN "open" ELSE "none"
  /\ toEngine' = <<>>
  /\ fromEngine' = <<>>
  /\ a_loading' = FALSE
  /\ pw' = [pw EXCEPT ![w] = IdleWorker]
  /\ UNCHANGED <<lock, cpc, req, rcvd, last, nextRid>>
  /\ UNCHANGED <<mode, a_queue, a_track, playArg, lastUi, added, started>>

NextHost ==
  \/ HostStart
  \/ OnRemoteAdd
  \/ TickHost
  \/ \E w \in Workers : WorkerBegin(w)
  \/ \E w \in Workers : WorkerFetched(w)
  \/ \E w \in Workers : WorkerPlayed(w)
  \/ EngineExit
  \/ OnResultSelected
  \/ ActionNextTrack

NextClient ==
  \/ Join
  \/ ClientStart
  \/ ConnectOpened
  \/ ConnectDrained
  \/ ListenEnter
  \/ ListenRead
  \/ ClientClose
  \/ SendAddRun
  \/ SendAddDrained
  \/ ActionQueueAdd
  \/ OnResultSelected
  \/ OnQueueSelected
  \/ ActionQueueRemove
  \/ ActionNextTrack
  \/ Tick

\* ------------------------------------------------------------------------
\* Framing at the level of the JSON text (net.py): json.dumps with
\* separators (",", ":"), the newline, json.loads
\* ------------------------------------------------------------------------

\* Python values, tagged by type: None, [t |-> "bool", b], [t |-> "num", n],
\* str, [t |-> "list", items], dict.
PyNone == [t |-> "None"]
PyStr(str) == [t |-> "str", s |-> str]
\* a dict is its <<key, value>> pairs in insertion order
PyDict(kvs) == [t |-> "dict", pairs |-> kvs]

\* d.get(k): the value of the last pair with key k, None if there is none
PyGet(d, k) ==
  LET hits == {i \in 1..Len(d.pairs) : d.pairs[i][1] = k} IN
  IF hits = {} THEN PyNone
  ELSE d.pairs[CHOOSE i \in hits : \A j \in hits : j <= i][2]

\* The JSON text is a sequence of tokens: punctuation, the words null, true
\* and false, numbers, strings, white space.
Tok(kind, str, num) == [k |-> kind, s |-> str, n |-> num]
Newline == Tok("ws", "\n", 0)

RECURSIVE JsonDumps(_), DumpsSeq(_, _)
\* json.dumps(v, separators=(",", ":"))
JsonDumps(v) ==
  CASE v.t = "None" -> <<Tok("word", "null", 0)>>
    [] v.t = "bool" -> <<Tok("word", IF v.b THEN "true" ELSE "false", 0)>>
    [] v.t = "num" -> <<Tok("number", "", v.n)>>
    [] v.t = "str" -> <<Tok("string", v.s, 0)>>
    [] v.t = "list" ->
         <<Tok("punct", "[", 0)>> \o DumpsSeq(v.items, FALSE)
           \o <<Tok("punct", "]", 0)>>
    [] v.t = "dict" ->
         <<Tok("punct", "{", 0)>> \o DumpsSeq(v.pairs, TRUE)
           \o <<Tok("punct", "}", 0)>>

\* the items of a list, or the key:value members of a dict, comma-separated
DumpsSeq(xs, keyed) ==
  IF xs = <<>> THEN <<>>
  ELSE (IF keyed
        THEN <<Tok("string", Head(xs)[1], 0), Tok("punct", ":", 0)>>
               \o JsonDumps(Head(xs)[2])
        ELSE JsonDumps(Head(xs)))
         \o (IF Tail(xs) = <<>> THEN <<>> ELSE <<Tok("punct", ",", 0)>>)
         \o DumpsSeq(Tail(xs), keyed)

\* encode_msg
EncodeMsgText(msg) == JsonDumps(msg) \o <<Newline>>

\* The decoder's result: a value and the text after it, or a failure.
Parsed(v, rest) == [ok |-> TRUE, v |-> v, rest |-> rest]
ParseError == [ok |-> FALSE, v |-> PyNone, rest |-> <<>>]

RECURSIVE ParseValue(_), ParseSeq(_, _, _)
\* json.loads: one value at the head of the text
ParseValue(ts) ==
  IF ts = <<>> THEN ParseError
  ELSE LET h == Head(ts)
           r == Tail(ts)
       IN CASE h.k = "word" ->
                 IF h.s = "null" THEN Parsed(PyNone, r)
                 ELSE IF h.s \in {"true", "false"}
                      THEN Parsed([t |-> "bool", b |-> (h.s = "true")], r)
                 ELSE ParseError
            [] h.k = "number" -> Parsed([t |-> "num", n |-> h.n], r)
            [] h.k = "string" -> Parsed(PyStr(h.s), r)
            [] h = Tok("punct", "[", 0) ->
                 IF r # <<>> /\ Head(r) = Tok("punct", "]", 0)
                 THEN Parsed([t |-> "list", items |-> <<>>], Tail(r))
                 ELSE ParseSeq(r, <<>>, FALSE)
            [] h = Tok("punct", "{", 0) ->
                 IF r # <<>> /\ Head(r) = Tok("punct", "}", 0)
                 THEN Parsed(PyDict(<<>>), Tail(r))
                 ELSE ParseSeq(r, <<>>, TRUE)
            [] OTHER -> ParseError

\* the items of an array, or the members of an object, after the opening
\* bracket or a comma
ParseSeq(ts, acc, keyed) ==
  IF keyed /\ (Len(ts) < 2 \/ ts[1].k # "string"
                 \/ ts[2] # Tok("punct", ":", 0))
  THEN ParseError
  ELSE LET p == ParseValue(IF keyed THEN SubSeq(ts, 3, Len(ts)) ELSE ts)
           all == Append(acc, IF keyed THEN <<ts[1].s, p.v>> ELSE p.v)
       IN IF ~p.ok \/ p.rest = <<>> THEN ParseError
          ELSE IF Head(p.rest) = Tok("punct", ",", 0)
               THEN ParseSeq(Tail(p.rest), all, keyed)
          ELSE IF Head(p.rest) = Tok("punct", IF keyed THEN "}" ELSE "]", 0)
               THEN Parsed(IF keyed THEN PyDict(all)
                           ELSE [t |-> "list", items |-> all], Tail(p.rest))
          ELSE ParseError

\* json.loads ignores white space around the value
RECURSIVE StripWs(_)
StripWs(ts) ==
  IF ts # <<>> /\ Head(ts).k = "ws" THEN StripWs(Tail(ts))
  ELSE IF ts # <<>> /\ ts[Len(ts)].k = "ws"
       THEN StripWs(SubSeq(ts, 1, Len(ts) - 1))
  ELSE ts

\* a decoder that takes the newline for data after the value
ReadMsgTextStrict(line) ==
  IF line = <<>> THEN PyNone
  ELSE LET p == ParseValue(line) IN
       IF p.ok /\ p.rest = <<>> THEN p.v ELSE PyNone

\* read_msg on a line that arrived whole: None for the empty line and for
\* text json.loads rejects, otherwise the decoded value.
ReadMsgText(line) ==
  IF line = <<>> THEN PyNone
  ELSE LET p == ParseValue(StripWs(line)) IN
       IF p.ok /\ p.rest = <<>> THEN p.v ELSE PyNone

\* Entries are yt-dlp's JSON objects; a live stream has no duration.
PyEntries ==
  {PyDict(<<<<"id", PyStr("x")>>, <<"title", PyStr("Song")>>,
            <<"duration", [t |-> "num", n |-> 200]>>>>),
   PyDict(<<<<"id", PyStr("y")>>, <<"title", PyStr("Tune")>>,
            <<"duration", PyNone>>>>)}

\* the message _tick broadcasts
SyncMsg(q, tr, pos, dur, pa) ==
  PyDict(<<<<"type", PyStr("sync")>>,
           <<"queue", [t |-> "list", items |-> q]>>,
           <<"track", tr>>,
           <<"position", [t |-> "num", n |-> pos]>>,
           <<"duration", [t |-> "num", n |-> dur]>>,
           <<"paused", [t |-> "bool", b |-> pa]>>>>)

\* The messages the program builds: hello (connect), add (send_add), ack
\* (_process), sync.
CodecMessages ==
  {PyDict(<<<<"type", PyStr("hello")>>>>)}
    \cup {PyDict(<<<<"type", PyStr("add")>>, <<"entry", e>>>>) :
            e \in PyEntries}
    \cup {PyDict(<<<<"type", PyStr("ack")>>, <<"title", PyGet(e, "title")>>>>) :
            e \in PyEntries}
    \cup {SyncMsg(q, tr, pos, dur, pa) :
            q \in UNION {[1..n -> PyEntries] : n \in 0..MaxQueue},
            tr \in PyEntries \cup {PyNone},
            pos \in {0, MaxSeconds}, dur \in {0, MaxSeconds},
            pa \in BOOLEAN}

InitCodec ==
  codec = [at |-> "idle", msg |-> PyNone, line |-> <<>>, decoded |-> PyNone]

\* A message about to be sent.
CodecInputs ==
  {[at |-> "built", msg |-> m, line |-> <<>>, decoded |-> PyNone] :
     m \in CodecMessages}

\* writer.write(encode_msg(msg))
CodecEncode ==
  /\ UNCHANGED <<programVars, accCall>>
  /\ codec.at = "built"
  /\ codec' = [codec EXCEPT !.at = "sent", !.line = EncodeMsgText(codec.msg)]

\* msg = await read_msg(reader) at the peer
CodecDecode ==
  /\ UNCHANGED <<programVars, accCall>>
  /\ codec.at = "sent"
  /\ codec' = [codec EXCEPT !.at = "read",
                            !.decoded = ReadMsgText(codec.line)]

NextCodec == CodecEncode \/ CodecDecode

\* ------------------------------------------------------------------------
\* Specifications
\* ------------------------------------------------------------------------
InitProgram ==
  /\ InitBridge /\ InitServer /\ InitClient /\ InitSender /\ InitApp
  /\ InitSession /\ InitHost

Init == InitProgram /\ InitAccessor /\ InitCodec


SpecBridge == Init /\ [][NextBridge]_vars
SpecServer == Init /\ [][NextServer]_vars
SpecClient == Init /\ [][NextClient]_vars
SpecSession == Init /\ [][NextSession]_vars
SpecOverlap == Init /\ [][NextOverlap]_vars
SpecHost == Init /\ [][NextHost]_vars

\* The pure functions: the initial states are their inputs.
InitAccessorInputs == InitProgram /\ InitCodec /\ accCall \in AccessorInputs
InitCodecInputs == InitProgram /\ InitAccessor /\ codec \in CodecInputs

SpecAccessor == InitAccessorInputs /\ [][NextAccessor]_vars
SpecCodec == InitCodecInputs /\ [][NextCodec]_vars

\* A thread inside recv() is not held up: the call returns within 0.2 s
\* with data or socket.timeout. Nothing is assumed of the engine.
SpecBridgeLive ==
  /\ Init /\ [][NextBridgeLive]_vars
  /\ \A t \in Callers : WF_vars(CommandRecv(t))

\* ------------------------------------------------------------------------
\* Properties of the engine bridge
\* ------------------------------------------------------------------------

\* C1: the value get_property returns to a caller is the engine's answer to
\* that caller's own request, never the answer to another caller's or to an
\* earlier request, also after a read that timed out.
C1_OwnResponse ==
  GetProperty(last.ret).kind = "val" => GetProperty(last.ret).rid = last.req.rid

\* C2: at most one caller is inside the command exchange, and it holds the
\* lock; a command is written to the socket only when no caller's exchange
\* is open.
C2_OneCallerInExchange ==
  /\ [](/\ Cardinality({t \in Callers : cpc[t] = "recv"}) <= 1
        /\ \A t \in Callers : cpc[t] = "recv" => lock = t)
  /\ [][Len(toEngine') > Len(toEngine) =>
          \A t \in Callers : cpc[t] # "recv"]_vars

\* C2 witness: one caller is inside the exchange after another caller has
\* completed an exchange of its own on the same socket.
C2_Witness ==
  \E t \in Callers :
    /\ cpc[t] = "recv" /\ lock = t
    /\ last.caller # t /\ last.ret.kind = "line"

\* C3: while a call is reading, every line it has received carries `event`;
\* the line a call returns is the first line it received that lacks `event`.
C3_EventsSkipped ==
  /\ \A t \in Callers :
       cpc[t] = "recv" => \A j \in 1..Len(rcvd[t]) : IsEvent(rcvd[t][j])
  /\ last.ret.kind = "line" =>
       \E i \in 1..Len(last.rcvd) :
         /\ ~IsEvent(last.rcvd[i])
         /\ \A j \in 1..(i - 1) : IsEvent(last.rcvd[j])
         /\ last.ret.line = last.rcvd[i]

\* C3 witness: a call returned an answer after discarding a notification
\* that arrived before it.
C3_Witness ==
  /\ last.ret.kind = "line"
  /\ Len(last.rcvd) >= 2
  /\ IsEvent(last.rcvd[1])

\* ------------------------------------------------------------------------
\* Properties of the broadcast server
\* ------------------------------------------------------------------------
AckFor(e) == EncodeMsg(Msg("ack", NoEntry, e.title, 0))

\* The handler step that just ran handled message m by invoking on_add once
\* with its entry and then writing one ack with the entry's title.
Acked(m) ==
  /\ lastSrv.onAdd = <<m.entry>>
  /\ lastSrv.writes[lastSrv.conn] = <<AckFor(m.entry)>>

\* The handler step that just ran neither invoked on_add nor wrote.
NotAcked ==
  /\ lastSrv.onAdd = <<>>
  /\ lastSrv.writes = NoWrites

\* C4 as stated: on_add and the ack happen exactly for `add` messages whose
\* entry has a non-empty id and a non-empty title.
C4_AckIffNonEmpty ==
  (lastSrv.op = "read" /\ lastSrv.msg # None) =>
    LET m == lastSrv.msg IN
    IF /\ m.json = "obj" /\ m.type = "add" /\ m.entry.dict
       /\ m.entry.hasId /\ m.entry.id # ""
       /\ m.entry.hasTitle /\ m.entry.title # ""
    THEN Acked(m) ELSE NotAcked

\* C4 as amended: on_add and the ack happen exactly for `add` messages whose
\* entry is an object that has an `id` key and a `title` key, whatever their
\* values; every other message gets neither.
C4_AckIffKeysPresent ==
  (lastSrv.op = "read" /\ lastSrv.msg # None) =>
    LET m == lastSrv.msg IN
    IF /\ m.json = "obj" /\ m.type = "add" /\ m.entry.dict
       /\ m.entry.hasId /\ m.entry.hasTitle
    THEN Acked(m) ELSE NotAcked

\* C4 witness: an add with id and title was handed to on_add and acked.
C4_Witness ==
  /\ lastSrv.op = "read"
  /\ lastSrv.msg.type = "add"
  /\ lastSrv.msg.entry.id = "x" /\ lastSrv.msg.entry.title = "Song"
  /\ Acked(lastSrv.msg)

\* C5: after a broadcast pass, every connection whose write failed is out of
\* the registry, client_count dropped by the number of failed writes, and
\* the failed connection's stream is closed.
C5_FailedWriteReleased ==
  lastSrv.op = "broadcast" =>
    /\ client_count = Len(lastSrv.before) - Cardinality(lastSrv.failed)
    /\ \A c \in lastSrv.failed : c \notin Range(clients) /\ wclosed[c]

\* C6: a broadcast passes the one encoding of the snapshot to write() exactly
\* once for every connection registered at the call, whether or not the
\* write to another connection failed, and writes to no other connection.
C6_WriteOncePerConnection ==
  lastSrv.op = "broadcast" =>
    \A c \in Conns :
      lastSrv.writes[c] = IF c \in Range(lastSrv.before)
                          THEN <<EncodeMsg(lastSrv.msg)>> ELSE <<>>

\* C6 witness: a broadcast in which the write to one connection failed and a
\* connection later in the registry was still written to.
C6_Witness ==
  /\ lastSrv.op = "broadcast"
  /\ \E i, j \in 1..Len(lastSrv.before) :
       /\ i < j
       /\ lastSrv.before[i] \in lastSrv.failed
       /\ lastSrv.before[j] \notin lastSrv.failed
       /\ lastSrv.writes[lastSrv.before[j]] # <<>>

\* C7: once stop() has returned the server accepts nothing, the registry is
\* empty, and every handler still outstanding has a cancellation pending and
\* its stream closed.
C7_StopComplete ==
  stopPc = "returned" =>
    /\ srv # "listening"
    /\ clients = <<>>
    /\ \A c \in Conns :
         hs[c] \in {"pending", "reading"} => cancelReq[c] /\ wclosed[c]

\* C8: a handler step whose read returned None ends the handler, with the
\* connection out of the registry and its stream closed; a step whose read
\* returned a decoded frame leaves the handler reading, the stream open and
\* the connection registered if it was.
C8_ExitOnlyOnNull ==
  lastSrv.op = "read" =>
    LET c == lastSrv.conn IN
    IF lastSrv.msg = None
    THEN hs[c] = "done" /\ wclosed[c] /\ c \notin Range(clients)
    ELSE /\ hs[c] = "reading" /\ ~wclosed[c]
         /\ c \in Range(lastSrv.before) => c \in Range(clients)

\* ------------------------------------------------------------------------
\* Properties of the peer client
\* ------------------------------------------------------------------------

\* C9: when open_connection was refused, found the host unreachable or timed
\* out, connect() has returned False and connected is false.
C9_FailedOpenReturnsFalse ==
  (connPc = "returned" /\ openOutcome \in OpenOutcomes \ {"ok"}) =>
    connRet = "false" /\ ~connected

\* C9 witness: connect() has returned after a refused connection.
C9_Witness == connPc = "returned" /\ openOutcome = "refused"

IsSync(m) == m.type = "sync"

\* C10: on_sync was invoked with exactly the sync frames listen() received,
\* once each and in arrival order; connected is false whenever listen() has
\* returned; and listen() returns only on a read that yielded no message or
\* when connected was already false.
C10_SyncsDeliveredInOrder ==
  /\ [](/\ delivered = SelectSeq(received, IsSync)
        /\ lstPc = "returned" => ~connected)
  /\ [][(lstPc # "returned" /\ lstPc' = "returned") =>
          (received' = received \/ ~connected)]_vars

\* C10 witness: listen() has returned after delivering two different
\* snapshots and ignoring a frame of another type.
C10_Witness ==
  /\ lstPc = "returned"
  /\ Len(delivered) = 2 /\ delivered[1] # delivered[2]
  /\ Len(received) = 3

\* C11: a send_add that found the client connected (writer set, connected
\* true) passed exactly one byte string to the writer, the add frame of its
\* entry; one that did not wrote nothing; a failed write left connected
\* false; and no exception left send_add.
C11_SendAddWritesOnce ==
  lastAdd.state \in {"drain", "done"} =>
    /\ lastAdd.frames =
         IF lastAdd.hadWriter /\ lastAdd.wasConnected
         THEN <<EncodeMsg(Msg("add", lastAdd.entry, "", 0))>>
         ELSE <<>>
    /\ lastAdd.failed => ~lastAdd.connAfter
    /\ ~lastAdd.raised

\* C11 witness: a send_add on a connected client whose drain raised.
C11_Witness ==
  /\ lastAdd.state = "done" /\ lastAdd.failed
  /\ lastAdd.hadWriter /\ lastAdd.wasConnected
  /\ lastAdd.entry = SongY

\* C12: once close() has run on an open connection, connected is false and
\* the writer is closed, and a listen() still in progress invokes on_sync no
\* more.
C12_CloseEndsListen ==
  /\ []((closedOnce /\ cl_writer = "closed") => ~connected)
  /\ [][(closedOnce /\ cl_writer = "closed" /\ lstPc = "reading") =>
          delivered' = delivered]_vars

\* C19: after on_sync was invoked, it was invoked with a message the host
\* broadcast, and the mirror holds that snapshot's queue and track, whatever
\* it held before.
C19_MirrorIsSnapshot ==
  delivered # <<>> =>
    LET m == delivered[Len(delivered)] IN
      /\ m \in Snapshots
      /\ a_queue = SnapshotBody(m.snap).queue
      /\ a_track = SnapshotBody(m.snap).track

\* C19 witness: a snapshot with an empty queue and a track was applied over
\* a mirror that held two entries and no track.
C19_Witness ==
  /\ Len(delivered) = 2
  /\ delivered[1].snap = 2 /\ delivered[2].snap = 1
  /\ a_queue = <<>> /\ a_track = SongX

\* C20: in client mode a step changes the queue mirror or the current track
\* only when it invokes on_sync, and a queue-add step starts one send_add
\* with a result entry and changes nothing else.
C20_MirrorChangesOnlyBySync ==
  [][mode = "client" =>
       /\ (<<a_queue, a_track>>' # <<a_queue, a_track>>) =>
            delivered' # delivered
       /\ (lastUi # "queue_add" /\ lastUi' = "queue_add") =>
            /\ addPc' = "pending" /\ lastAdd'.entry \in Results
            /\ UNCHANGED <<clientVars, a_queue, a_track, playArg>>]_vars

\* C20 witness: next-track was pressed in client mode while the mirror held
\* two entries, after an add frame had been sent.
C20_Witness ==
  /\ mode = "client" /\ lastUi = "next_track"
  /\ a_queue = <<SongY, SongX>>
  /\ lastAdd.frames # <<>>

\* C13: at most one spawned engine process is alive and at most one control
\* socket is open at any time, and when play() reaches its spawn the
\* previous process has exited, the previous socket is closed and the
\* socket file is gone.
C13_OneSession ==
  /\ Cardinality(alive) <= 1
  /\ Cardinality(openSocks) <= 1
  /\ \A w \in Workers :
       wpc[w].at = "spawn" => alive = {} /\ openSocks = {} /\ p_file = 0

\* C13 witness: a second play() connected after a first connected session.
C13_Witness ==
  /\ lastOp.op = "play" /\ lastOp.ret = "true"
  /\ nsock = 2 /\ alive = {2} /\ openSocks = {2}

C15_StopLeavesNothing ==
  (lastOp.op = "stop" /\ AllIdle) =>
    /\ p_proc = 0 /\ p_sock = 0 /\ p_file = 0
    /\ ~lastOp.running /\ ~lastOp.raised

\* C15 witness: a second stop() returned right after a first one that ended
\* a connected session.
C15_Witness ==
  /\ lastOp.op = "stop" /\ lastOp.prevOp = "stop"
  /\ nsock = 1 /\ AllIdle

\* C16: a command that was inside its exchange when stop() cleared the
\* socket ends by returning None.
C16_StoppedCommandUnavailable ==
  [][\A t \in Callers :
       (cpc[t] = "recv" /\ sock = "none" /\ cpc'[t] = "idle") =>
         last'.ret = RetNone]_vars

\* C17: no exception leaves an accessor, and unless _command returned a
\* success answer the accessor returns its default.
C17_AccessorDefaults ==
  last.caller # 0 =>
    LET a == Accessor(last.req.prop, last.ret) IN
      /\ a.kind # "exc"
      /\ ~(last.ret.kind = "line" /\ last.ret.line.error = "success") =>
           a.data = PropDefault(last.req.prop)

\* C18: every call that entered the read loop leaves it, whatever the
\* engine sends.
C18_CommandReturns ==
  \A t \in Callers : (cpc[t] = "recv") ~> (cpc[t] = "idle")

\* C23: once connect() has returned False, connected is false; connected is
\* true after connect() only if it returned True.
C23_FalseMeansDisconnected ==
  (connPc = "returned" /\ connRet = "false") => ~connected

\* C24: when no play() or stop() is in progress, every engine process that
\* is alive is the one self._proc holds, and after a stop() none is alive.
C24_NoUntrackedEngine ==
  AllIdle =>
    /\ alive \subseteq {p_proc}
    /\ lastOp.op = "stop" => alive = {}

\* C26: an accessor whose read got a success answer returns the answer's
\* data, whatever the value (0 and False included).
C26_SuccessDataReturned ==
  ( /\ accCall.result.kind \notin {"idle", "pending"}
    /\ accCall.ret.kind = "line" /\ accCall.ret.line.error = "success" ) =>
    accCall.result = [kind |-> "val", data |-> accCall.ret.line.data]

\* C21: the value read_msg decodes from the line encode_msg produced equals
\* the message that was encoded, for hello, add, ack and sync messages.
C21_RoundTrip ==
  codec.at = "read" => codec.decoded = codec.msg

\* C21 witness: a sync with a null track and a two-entry queue, one entry
\* without duration, went through encode_msg and read_msg.
C21_Witness ==
  /\ codec.at = "read"
  /\ PyGet(codec.msg, "type") = PyStr("sync")
  /\ PyGet(codec.msg, "track") = PyNone
  /\ Len(PyGet(codec.msg, "queue").items) = 2
  /\ PyGet(PyGet(codec.msg, "queue").items[2], "duration") = PyNone
  /\ codec.line[Len(codec.line)] = Newline
  /\ codec.decoded = codec.msg

\* C22: with no row of the queue removed or selected by hand, the entries
\* added are, in the order they were added, those already taken from the
\* head and handed to the play worker followed by those still queued: each
\* starts once, in order, and none is lost or duplicated.
C22_QueueIsFifo ==
  added = started \o a_queue

\* C22 witness: two remote adds, and the tick has just taken the second
\* from the head after the first.
C22_Witness ==
  /\ lastUi = "tick" /\ a_track = NoEntry
  /\ added = <<SongX, SongY>>
  /\ started = <<SongX, SongY>>
  /\ a_queue = <<>>
  /\ \E w \in Workers : pw[w].at = "created" /\ pw[w].entry = SongY

\* C25: a tick that clears the current track or pops the queue does so
\* only when no worker that has not been superseded is between the start
\* of its fetch and the return of player.play().
C25_TickWaitsForFetch ==
  [][(TickHost /\ (a_track' # a_track \/ a_queue' # a_queue)) =>
       ~\E w \in Workers :
          pw[w].at \in {"fetch", "play"} /\ ~pw[w].cancelled]_vars

====
